---------------------------- MODULE Spec2Model ----------------------------
(***************************************************************************)
(* A model of the cloud-workstation CLI: the local config store            *)
(* (ConfigManager: one YAML descriptor and one SSH stanza per workstation  *)
(* name), the port allocator of write_ssh_config, and the create / delete  *)
(* commands that tie the local store to the provider's workstations.       *)
(***************************************************************************)
EXTENDS Integers, Sequences, FiniteSets, TLC

(***************************************************************************)
(* Value universes and bounds                                              *)
(***************************************************************************)
Procs == {1, 2}
Names == {"ws1", "ws2"}
Projects == {"p1", "p2"}
Locations == {"us-central1"}
Clusters == {"cluster-public"}
Configs == {"cfg"}
Users == {"alice"}
Accounts == {"alice@example.com"}

\* config.py:263, the first candidate when no stanza claims a port
DefaultPort == 6000
\* config.py:267, range(20)
ProbeAttempts == 20
\* the highest port a stanza may hold in the model (the code has no such cap)
MaxPort == 6002

None == "None"

Max(S) == CHOOSE x \in S : \A y \in S : y <= x
Min(S) == CHOOSE x \in S : \A y \in S : x <= y

(***************************************************************************)
(* Files.  A file is absent, or a sequence of lines [key, val].            *)
(***************************************************************************)
NoFile == [exists |-> FALSE, lines |-> << >>]
File(ls) == [exists |-> TRUE, lines |-> ls]

RequiredKeys == <<"project", "name", "location", "cluster", "config">>

WorkstationConfig_swapped(project, name, location, cluster, config) ==
    [name |-> name, location |-> cluster, cluster |-> location,
     config |-> config, project |-> project]
WorkstationConfig(project, name, location, cluster, config) ==
    [name |-> name, location |-> location, cluster |-> cluster,
     config |-> config, project |-> project]

generate_workstation_yml_no_project(w) ==
    << [key |-> "name", val |-> w.name],
       [key |-> "location", val |-> w.location],
       [key |-> "cluster", val |-> w.cluster],
       [key |-> "config", val |-> w.config] >>
\* yaml.dump(asdict(self), sort_keys=False): one "key: value" line per
\* dataclass field, in field order
generate_workstation_yml(w) ==
    << [key |-> "name", val |-> w.name],
       [key |-> "location", val |-> w.location],
       [key |-> "cluster", val |-> w.cluster],
       [key |-> "config", val |-> w.config],
       [key |-> "project", val |-> w.project] >>

\* yaml.safe_load of a block mapping: the set of (key, value) pairs, a later
\* line of a key replacing an earlier one.  An empty document loads as None.
safe_load_keys(lines) == {lines[i].key : i \in 1..Len(lines)}
safe_load_get(lines, k) ==
    lines[Max({i \in 1..Len(lines) : lines[i].key = k})].val
safe_load(lines) ==
    [isNone |-> lines = << >>,
     items |-> {<<k, safe_load_get(lines, k)>> : k \in safe_load_keys(lines)}]

DictKeys(d) == {kv[1] : kv \in d}
DictGet(d, k) == (CHOOSE kv \in d : kv[1] = k)[2]

check_if_config_exists(ymlStore, name) == ymlStore[name].exists

missing_keys(contents) ==
    SelectSeq(RequiredKeys, LAMBDA k : k \notin DictKeys(contents.items))

\* ConfigManager.read_configuration: the exception it raises ("" when it
\* returns), the keys its KeyError lists, and the mapping it returns
read_configuration_wrong_error(ymlStore, name) ==
    IF ~ymlStore[name].exists
    THEN [exc |-> "KeyError", missing |-> RequiredKeys, contents |-> {}]
    ELSE LET contents == safe_load(ymlStore[name].lines) IN
         IF contents.isNone
         THEN [exc |-> "TypeError", missing |-> << >>, contents |-> {}]
         ELSE IF missing_keys(contents) # << >>
         THEN [exc |-> "KeyError", missing |-> missing_keys(contents),
               contents |-> {}]
         ELSE [exc |-> "", missing |-> << >>, contents |-> contents.items]
read_configuration(ymlStore, name) ==
    IF ~ymlStore[name].exists
    THEN [exc |-> "FileNotFoundError", missing |-> << >>, contents |-> {}]
    ELSE LET contents == safe_load(ymlStore[name].lines) IN
         IF contents.isNone
         THEN \* `key in None` raises TypeError on the first key tested
              [exc |-> "TypeError", missing |-> << >>, contents |-> {}]
         ELSE IF missing_keys(contents) # << >>
         THEN [exc |-> "KeyError", missing |-> missing_keys(contents),
               contents |-> {}]
         ELSE [exc |-> "", missing |-> << >>, contents |-> contents.items]

(***************************************************************************)
(* SSH stanzas and the port allocator                                      *)
(***************************************************************************)
\* config.py:284, the countdown of the ProxyCommand
ProxyTimeout == 10

Sh(cmd, arg) == [cmd |-> cmd, arg |-> arg]

proxy_command_swapped(project, cluster, config, region) ==
    [project |-> project, cluster |-> config, config |-> cluster,
     region |-> region,
     script |-> << Sh("def_cleanup", 0), Sh("trap_exit", 0), Sh("tunnel_bg", 0),
                   Sh("set_timeout", ProxyTimeout), Sh("wait_loop", 0),
                   Sh("stream", 0) >>]
proxy_command_long_timeout(project, cluster, config, region) ==
    [project |-> project, cluster |-> cluster, config |-> config,
     region |-> region,
     script |-> << Sh("def_cleanup", 0), Sh("trap_exit", 0), Sh("tunnel_bg", 0),
                   Sh("set_timeout", ProxyTimeout + 1), Sh("wait_loop", 0),
                   Sh("stream", 0) >>]
proxy_command_late_trap(project, cluster, config, region) ==
    [project |-> project, cluster |-> cluster, config |-> config,
     region |-> region,
     script |-> << Sh("def_cleanup", 0), Sh("tunnel_bg", 0), Sh("trap_exit", 0),
                   Sh("set_timeout", ProxyTimeout), Sh("wait_loop", 0),
                   Sh("stream", 0) >>]
proxy_command_late_tunnel(project, cluster, config, region) ==
    [project |-> project, cluster |-> cluster, config |-> config,
     region |-> region,
     script |-> << Sh("def_cleanup", 0), Sh("trap_exit", 0),
                   Sh("set_timeout", ProxyTimeout), Sh("wait_loop", 0),
                   Sh("tunnel_bg", 0), Sh("stream", 0) >>]
\* config.py:274-293: the tunnel arguments and the statements of the sh -c
\* script, in order: cleanup() { pkill -P $$; }; trap cleanup EXIT;
\* gcloud ... start-tcp-tunnel ... &; timeout=10; while ! nc -z ...; done;
\* nc localhost %p
proxy_command(project, cluster, config, region) ==
    [project |-> project, cluster |-> cluster, config |-> config,
     region |-> region,
     script |-> << Sh("def_cleanup", 0), Sh("trap_exit", 0), Sh("tunnel_bg", 0),
                   Sh("set_timeout", ProxyTimeout), Sh("wait_loop", 0),
                   Sh("stream", 0) >>]

config_content_base_port(name, port, user, proxy) ==
    << [key |-> "Host", val |-> name],
       [key |-> "HostName", val |-> name],
       [key |-> "Port", val |-> DefaultPort],
       [key |-> "User", val |-> user],
       [key |-> "StrictHostKeyChecking", val |-> "no"],
       [key |-> "UserKnownHostsFile", val |-> "/dev/null"],
       [key |-> "ControlMaster", val |-> "auto"],
       [key |-> "ControlPersist", val |-> "30m"],
       [key |-> "ControlPath", val |-> "~/.ssh/cm/%r@%h:%p"],
       [key |-> "ProxyCommand", val |-> proxy] >>
config_content(name, port, user, proxy) ==
    << [key |-> "Host", val |-> name],
       [key |-> "HostName", val |-> name],
       [key |-> "Port", val |-> port],
       [key |-> "User", val |-> user],
       [key |-> "StrictHostKeyChecking", val |-> "no"],
       [key |-> "UserKnownHostsFile", val |-> "/dev/null"],
       [key |-> "ControlMaster", val |-> "auto"],
       [key |-> "ControlPersist", val |-> "30m"],
       [key |-> "ControlPath", val |-> "~/.ssh/cm/%r@%h:%p"],
       [key |-> "ProxyCommand", val |-> proxy] >>

\* re.search(r"\n\s*Port\s+(\d+)", contents): the first line, after a line
\* break (so never the first line of the file), that reads Port, white space
\* and at least one digit; the group is the run of digits, whatever follows
\* it.  A line carries `val` when digits follow Port, and `junk` when
\* something that is not white space follows them or stands in their place.
port_line(lines) ==
    LET idx == {i \in 2..Len(lines) :
                  lines[i].key = "Port" /\ "val" \in DOMAIN lines[i]}
    IN  IF idx = {} THEN {} ELSE {lines[Min(idx)].val}

\* the ports list built from the *.config files of the configs directory
claimed_ports(sshStore) ==
    UNION {port_line(sshStore[n].lines) : n \in {m \in Names : sshStore[m].exists}}

first_candidate_reuse(ports) == IF ports = {} THEN DefaultPort ELSE Max(ports)
first_candidate_min(ports) == IF ports = {} THEN DefaultPort ELSE Min(ports) + 1
first_candidate(ports) == IF ports = {} THEN DefaultPort ELSE Max(ports) + 1

\* utils.check_socket: True when the bind succeeds, that is when no local
\* process holds the port
check_socket(port, bound) == port \notin bound

\* the for/else probe loop: the probes made, in order
RECURSIVE probe_loop(_, _, _, _)
probe_loop(port, i, limit, bound) ==
    IF i = limit THEN << >>
    ELSE IF check_socket(port, bound)
         THEN << [port |-> port, free |-> TRUE] >>
         ELSE << [port |-> port, free |-> FALSE] >>
              \o probe_loop(port + 1, i + 1, limit, bound)

find_port_short(base, bound) == probe_loop(base, 0, ProbeAttempts - 1, bound)
find_port(base, bound) == probe_loop(base, 0, ProbeAttempts, bound)

\* the ports the loop may probe, given the ports list
Candidates(ports) ==
    first_candidate(ports)..(first_candidate(ports) + ProbeAttempts - 1)

Found(ps) == ps # << >> /\ ps[Len(ps)].free
ChosenPort(ps) == ps[Len(ps)].port

\* The sets of ports other local processes may hold while a call probes.
BoundSets ==
    {lo..hi : lo \in DefaultPort..(DefaultPort + 1),
              hi \in (DefaultPort - 1)..(MaxPort + ProbeAttempts + 1)}


(***************************************************************************)
(* State                                                                   *)
(***************************************************************************)
VARIABLES
    yml,       \* configs/<name>.yml, per workstation name
    ssh,       \* configs/<name>.config, per workstation name
    remote,    \* the provider's workstations, as <<project, name>>
    pc,        \* where each process stands in its call or command
    op,        \* the call or command each process runs, with its arguments
    cwd,       \* each process's working directory
    claimed,   \* write_ssh_config: the ports list it built
    probes,    \* write_ssh_config: the probes it made, in order
    held,      \* write_ssh_config: the candidates other processes held meanwhile
    outcome,   \* "" while running, "ok", "exit0", "exit1" or the exception
    ret,       \* what read_configuration gave the caller
    log,       \* the effects of the running call or command, in order
    pre,       \* the stores as they were when the call or command began
    lastPort,  \* the port of the last stanza written since the last deletion
    written,   \* per name, the descriptor last written since its file was
               \* last deleted
    sub        \* the subprocesses and shell state of a sync call or of a
               \* running ProxyCommand

vars == <<yml, ssh, remote, pc, op, cwd, claimed, probes, held, outcome, ret,
          log, pre, lastPort, written, sub>>

stores == <<yml, ssh, remote>>
locals == <<claimed, probes, held, ret, sub>>
ghosts == <<lastPort, written>>

NoOp == [kind |-> "none", name |-> "", project |-> "", location |-> "",
         cluster |-> "", config |-> "", user |-> "", account |-> "",
         code |-> FALSE, browser |-> FALSE, all |-> FALSE, json |-> FALSE]
NoRead == [exc |-> "", missing |-> << >>, contents |-> {}]
Snapshot == [yml |-> yml, ssh |-> ssh, remote |-> remote, lastPort |-> lastPort]

EmptyStore == [n \in Names |-> NoFile]
NoArgs == [project |-> "", name |-> "", location |-> "", cluster |-> "",
           config |-> ""]
NothingWritten == [n \in Names |-> NoArgs]

\* no tunnel, no stream, no directory sync; the shell has run nothing yet
\* a gcloud configuration without project, region and account
NoGcloud == [project |-> None, region |-> None, account |-> None]
\* the value of a total that no command has printed
NotPrinted == "NotPrinted"
NoSub == [ip |-> 0, trap |-> FALSE, tunnel |-> "none", timeout |-> 0,
          counter |-> 0, checks |-> 0, failed |-> 0, stream |-> "none",
          rsync |-> 0, port |-> 0, events |-> << >>, out |-> << >>,
          total |-> NotPrinted, proxy |-> None, no_proxy |-> None,
          envs |-> << >>, env |-> {}, gc |-> NoGcloud, got |-> NoGcloud,
          msg |-> "", entries |-> << >>, instances |-> {}, seen |-> 0]

\* the state before any call, over given stores, provider workstations and
\* arguments of the call to come
InitFull(y, s, r, o, sb) ==
    /\ yml = y
    /\ ssh = s
    /\ remote = r
    /\ pc = [p \in Procs |-> "idle"]
    /\ op = [p \in Procs |-> o]
    /\ cwd = [p \in Procs |-> "start"]
    /\ claimed = [p \in Procs |-> {}]
    /\ probes = [p \in Procs |-> << >>]
    /\ held = [p \in Procs |-> {}]
    /\ outcome = [p \in Procs |-> ""]
    /\ ret = [p \in Procs |-> NoRead]
    /\ log = [p \in Procs |-> << >>]
    /\ lastPort = IF claimed_ports(s) = {} THEN 0 ELSE Max(claimed_ports(s))
    /\ pre = [p \in Procs |-> [yml |-> y, ssh |-> s, remote |-> r,
                               lastPort |-> lastPort]]
    /\ written = NothingWritten
    /\ sub = [p \in Procs |-> sb]

\* the state before any call, over given stores and provider workstations
InitWith(y, s, r) == InitFull(y, s, r, NoOp, NoSub)

\* the state before any call, the provider having no workstation
InitOver(y, s) == InitWith(y, s, {})

\* an empty configs directory
Init == InitOver(EmptyStore, EmptyStore)

Ready(p) == pc[p] \in {"idle", "done"}

\* a call or command begins: its locals are fresh
Begin(p, o, next) ==
    /\ Ready(p)
    /\ op' = [op EXCEPT ![p] = o]
    /\ pc' = [pc EXCEPT ![p] = next]
    /\ pre' = [pre EXCEPT ![p] = Snapshot]
    /\ claimed' = [claimed EXCEPT ![p] = {}]
    /\ probes' = [probes EXCEPT ![p] = << >>]
    /\ held' = [held EXCEPT ![p] = {}]
    /\ sub' = [sub EXCEPT ![p] = NoSub]

\* ... and it is still running after its first step
BeginRunning(p, o, next) ==
    /\ Begin(p, o, next)
    /\ outcome' = [outcome EXCEPT ![p] = ""]
    /\ log' = [log EXCEPT ![p] = << >>]
    /\ ret' = [ret EXCEPT ![p] = NoRead]

\* a call returns, a command exits, or an exception leaves it
Finish(p, how) ==
    /\ pc' = [pc EXCEPT ![p] = "done"]
    /\ outcome' = [outcome EXCEPT ![p] = how]

(***************************************************************************)
(* ConfigManager, called directly by one process at a time                 *)
(***************************************************************************)
\* ConfigManager.write_configuration: the store and the working directory
\* it leaves and the exception it raises.  `fails` is an OS error raised by
\* mkdir, chdir or open, before anything is written.
write_configuration(ymlStore, dir, project, name, location, cluster, config, fails) ==
    IF fails
    THEN [exc |-> "OSError", yml |-> ymlStore, cwd |-> dir]
    ELSE [exc |-> "",
          yml |-> [ymlStore EXCEPT ![name] =
                     File(generate_workstation_yml(
                            WorkstationConfig(project, name, location, cluster, config)))],
          cwd |-> "configs"]

delete_configuration_unlink_early(ymlStore, sshStore, name) ==
    IF ~sshStore[name].exists
    THEN [exc |-> "FileNotFoundError", yml |-> ymlStore, ssh |-> sshStore]
    ELSE IF ~ymlStore[name].exists
    THEN [exc |-> "FileNotFoundError", yml |-> ymlStore,
          ssh |-> [sshStore EXCEPT ![name] = NoFile]]
    ELSE [exc |-> "",
          yml |-> [ymlStore EXCEPT ![name] = NoFile],
          ssh |-> [sshStore EXCEPT ![name] = NoFile]]

delete_configuration_config_only(ymlStore, sshStore, name) ==
    IF ~sshStore[name].exists \/ ~ymlStore[name].exists
    THEN [exc |-> "FileNotFoundError", yml |-> ymlStore, ssh |-> sshStore]
    ELSE [exc |-> "", yml |-> ymlStore,
          ssh |-> [sshStore EXCEPT ![name] = NoFile]]

\* ConfigManager.delete_configuration
delete_configuration(ymlStore, sshStore, name) ==
    IF ~sshStore[name].exists
    THEN [exc |-> "FileNotFoundError", yml |-> ymlStore, ssh |-> sshStore]
    ELSE IF ~ymlStore[name].exists
    THEN [exc |-> "FileNotFoundError", yml |-> ymlStore, ssh |-> sshStore]
    ELSE [exc |-> "",
          yml |-> [ymlStore EXCEPT ![name] = NoFile],
          ssh |-> [sshStore EXCEPT ![name] = NoFile]]

Raised(exc) == IF exc = "" THEN "ok" ELSE exc

\* the descriptor arguments of call o, remembered as the last written
ArgsOf(o) == [project |-> o.project, name |-> o.name, location |-> o.location,
              cluster |-> o.cluster, config |-> o.config]
Record(w, o) == [w EXCEPT ![o.name] = ArgsOf(o)]
Forget(w, name) == [w EXCEPT ![name] = NoArgs]

CallWriteConfiguration(p) ==
    \E name \in Names, project \in Projects, location \in Locations,
       cluster \in Clusters, config \in Configs, fails \in BOOLEAN :
      LET o == [NoOp EXCEPT !.kind = "write_configuration", !.name = name,
                            !.project = project, !.location = location,
                            !.cluster = cluster, !.config = config]
          r == write_configuration(yml, cwd[p], project, name, location,
                                   cluster, config, fails)
      IN  /\ Begin(p, o, "done")
          /\ yml' = r.yml
          /\ cwd' = [cwd EXCEPT ![p] = r.cwd]
          /\ outcome' = [outcome EXCEPT ![p] = Raised(r.exc)]
          /\ log' = [log EXCEPT ![p] = IF r.exc = "" THEN <<"write_yml">> ELSE << >>]
          /\ ret' = [ret EXCEPT ![p] = NoRead]
          /\ written' = IF r.exc = "" THEN Record(written, o) ELSE written
          /\ UNCHANGED <<ssh, remote, lastPort>>

CallReadConfiguration(p) ==
    \E name \in Names :
      LET r == read_configuration(yml, name)
      IN  /\ Begin(p, [NoOp EXCEPT !.kind = "read_configuration", !.name = name], "done")
          /\ ret' = [ret EXCEPT ![p] = r]
          /\ outcome' = [outcome EXCEPT ![p] = Raised(r.exc)]
          /\ log' = [log EXCEPT ![p] = << >>]
          /\ UNCHANGED <<stores, cwd, ghosts>>

CallDeleteConfiguration(p) ==
    \E name \in Names :
      LET r == delete_configuration(yml, ssh, name)
      IN  /\ Begin(p, [NoOp EXCEPT !.kind = "delete_configuration", !.name = name], "done")
          /\ yml' = r.yml
          /\ ssh' = r.ssh
          /\ outcome' = [outcome EXCEPT ![p] = Raised(r.exc)]
          /\ log' = [log EXCEPT ![p] = IF r.exc = "" THEN <<"unlink_config", "unlink_yml">>
                                                    ELSE << >>]
          /\ lastPort' = IF r.exc = "" THEN 0 ELSE lastPort
          /\ written' = IF r.exc = "" THEN Forget(written, name) ELSE written
          /\ ret' = [ret EXCEPT ![p] = NoRead]
          /\ UNCHANGED <<remote, cwd>>

CallWriteSshConfig(p) ==
    \E name \in Names, user \in Users, project \in Projects,
       cluster \in Clusters, config \in Configs, region \in Locations :
      /\ BeginRunning(p, [NoOp EXCEPT !.kind = "write_ssh_config", !.name = name,
                               !.user = user, !.project = project,
                               !.cluster = cluster, !.config = config,
                               !.location = region], "ssh_scan")
      /\ UNCHANGED <<stores, cwd, ghosts>>

(***************************************************************************)
(* write_ssh_config, step by step: other processes may run in between      *)
(***************************************************************************)
\* config.py:251-260, the scan of the *.config files
SshScan(p) ==
    /\ pc[p] = "ssh_scan"
    /\ claimed' = [claimed EXCEPT ![p] = claimed_ports(ssh)]
    /\ pc' = [pc EXCEPT ![p] = "ssh_probe"]
    /\ UNCHANGED <<stores, op, cwd, probes, held, outcome, ret, log, pre, ghosts, sub>>

\* config.py:262-272, the first candidate and the probe loop
SshProbe(p) ==
    /\ pc[p] = "ssh_probe"
    /\ \E bound \in BoundSets :
         LET ps == find_port(first_candidate(claimed[p]), bound)
         IN  /\ Found(ps) => ChosenPort(ps) <= MaxPort
             /\ probes' = [probes EXCEPT ![p] = ps]
             /\ held' = [held EXCEPT ![p] = bound \cap Candidates(claimed[p])]
             /\ IF Found(ps)
                THEN /\ pc' = [pc EXCEPT ![p] = "ssh_write"]
                     /\ UNCHANGED outcome
                ELSE Finish(p, "NoPortFree")
    /\ UNCHANGED <<stores, op, cwd, claimed, ret, log, pre, ghosts, sub>>

\* config.py:274-311, the stanza is written over the file of the name
SshWrite(p) ==
    /\ pc[p] = "ssh_write"
    /\ ssh' = [ssh EXCEPT ![op[p].name] =
                 File(config_content(op[p].name, ChosenPort(probes[p]), op[p].user,
                        proxy_command(op[p].project, op[p].cluster,
                                      op[p].config, op[p].location)))]
    /\ lastPort' = ChosenPort(probes[p])
    /\ log' = [log EXCEPT ![p] = Append(@, "write_ssh")]
    /\ Finish(p, "ok")
    /\ UNCHANGED <<yml, remote, op, cwd, claimed, probes, held, ret, pre, written, sub>>

NextCM ==
    \/ CallWriteConfiguration(1)
    \/ CallReadConfiguration(1)
    \/ CallDeleteConfiguration(1)
    \/ CallWriteSshConfig(1)
    \/ SshScan(1)
    \/ SshProbe(1)
    \/ SshWrite(1)

SpecCM == Init /\ [][NextCM]_vars


(***************************************************************************)
(* The create and delete commands, one command at a time                   *)
(***************************************************************************)
Credentials == {"valid", "missing", "expired"}

\* utils.check_gcloud_auth: DefaultCredentialsError and RefreshError end the
\* process with sys.exit(1)
check_gcloud_auth_always_ok(cred) == "ok"
check_gcloud_auth(cred) == IF cred = "valid" THEN "ok" ELSE "exit1"

\* what config_default may hold: project, region and account, or None
GcloudConfigs ==
    [project : {None, "p1"}, region : {None, "us-central1"},
     account : {None} \cup Accounts]

get_gcloud_config_default_first(project, location, gc) ==
    IF project = None /\ gc.project = None
    THEN [exc |-> "ValueError", project |-> project, location |-> location,
          account |-> gc.account,
          msg |-> "Project not found in gcloud config and was not passed in."]
    ELSE IF location = None /\ gc.region = None
    THEN [exc |-> "ValueError", project |-> project, location |-> location,
          account |-> gc.account,
          msg |-> "Location not found in gcloud config and was not passed in."]
    ELSE IF gc.account = None
    THEN [exc |-> "ValueError", project |-> project, location |-> location,
          account |-> gc.account, msg |-> "Account not found in gcloud config."]
    ELSE [exc |-> "", msg |-> "",
          project |-> IF gc.project # None THEN gc.project ELSE project,
          location |-> IF gc.region # None THEN gc.region ELSE location,
          account |-> gc.account]

\* crud.get_gcloud_config over the values read_gcloud_config returns
get_gcloud_config(project, location, gc) ==
    IF project = None /\ gc.project = None
    THEN [exc |-> "ValueError", project |-> project, location |-> location,
          account |-> gc.account,
          msg |-> "Project not found in gcloud config and was not passed in."]
    ELSE IF location = None /\ gc.region = None
    THEN [exc |-> "ValueError", project |-> project, location |-> location,
          account |-> gc.account,
          msg |-> "Location not found in gcloud config and was not passed in."]
    ELSE IF gc.account = None
    THEN [exc |-> "ValueError", project |-> project, location |-> location,
          account |-> gc.account, msg |-> "Account not found in gcloud config."]
    ELSE [exc |-> "", msg |-> "",
          project |-> IF project = None THEN gc.project ELSE project,
          location |-> IF location = None THEN gc.region ELSE location,
          account |-> gc.account]

\* client.create_workstation(request) and operation.result(): the provider
\* refuses an id it already has; `fault` is any other provider error
create_workstation_request(remoteSet, key, fault) ==
    IF key \in remoteSet THEN [exc |-> "AlreadyExists", remote |-> remoteSet]
    ELSE IF fault THEN [exc |-> "ProviderError", remote |-> remoteSet]
    ELSE [exc |-> "", remote |-> remoteSet \cup {key}]

\* core.py:168-170: the five values make up the resource path of the
\* request; the provider refuses a path with a component that is missing
invalid_request(o) ==
    \E f \in {o.project, o.name, o.location, o.cluster, o.config} : f \in {None, ""}

on_create_result_ignore_exists(exc) ==
    IF exc = "AlreadyExists" THEN "write_yml"
    ELSE IF exc # "" THEN "raise"
    ELSE "write_yml"
on_create_result_ignore_errors(exc) ==
    IF exc = "AlreadyExists" THEN "exit1"
    ELSE "write_yml"
\* core.py:177-184: AlreadyExists is caught and ends the process with
\* sys.exit(1), any other error propagates, success goes on to write the
\* descriptor
on_create_result(exc) ==
    IF exc = "AlreadyExists" THEN "exit1"
    ELSE IF exc # "" THEN "raise"
    ELSE "write_yml"

\* client.delete_workstation(request) and operation.result()
delete_workstation_request(remoteSet, key, fault) ==
    IF key \notin remoteSet \/ fault
    THEN [exc |-> "ProviderError", remote |-> remoteSet]
    ELSE [exc |-> "", remote |-> remoteSet \ {key}]

on_delete_result_ignore_errors(exc) == "local_delete"
\* crud.py:454-455: an error of delete_workstation propagates out of the
\* command, success goes on to delete_configuration
on_delete_result(exc) == IF exc = "" THEN "local_delete" ELSE "raise"

\* a new CLI process starts in the user's working directory
BeginCommand(p, o) ==
    /\ BeginRunning(p, o, "auth")
    /\ cwd' = [cwd EXCEPT ![p] = "start"]
    /\ UNCHANGED <<stores, ghosts>>

\* crud.py:184-194, create with its options; --config has no default and is
\* not required, so it may be None
BeginCreate(p) ==
    \E name \in Names, project \in {None, "p1"}, location \in Locations,
       cluster \in Clusters, config \in Configs \cup {None} :
      BeginCommand(p, [NoOp EXCEPT !.kind = "create", !.name = name,
                                   !.project = project, !.location = location,
                                   !.cluster = cluster, !.config = config])

\* crud.py:447, delete --name
BeginDelete(p) ==
    \E name \in Names :
      BeginCommand(p, [NoOp EXCEPT !.kind = "delete", !.name = name])

\* the statement that follows check_gcloud_auth() in each command
AfterAuth(kind) ==
    CASE kind = "create" -> "gcloud"
      [] kind \in {"list_configs", "list"} -> "gcloud_list"
      [] kind = "start" -> "start_flags"
      [] kind = "logs" -> "logs_assign"
      [] OTHER -> "read_cfg"

\* the first statement of every command: the credentials are looked up and
\* refreshed
Auth(p) ==
    /\ pc[p] = "auth"
    /\ \E cred \in Credentials :
         /\ log' = [log EXCEPT ![p] = @ \o <<"check_auth", cred>>]
         /\ IF check_gcloud_auth(cred) = "ok"
            THEN /\ pc' = [pc EXCEPT ![p] = AfterAuth(op[p].kind)]
                 /\ UNCHANGED outcome
            ELSE Finish(p, "exit1")
    /\ UNCHANGED <<stores, op, cwd, locals, pre, ghosts>>

on_overwrite_prompt_ignored(exists, overwrite) == "create"
\* crud.py:213-218: a name with a descriptor is created again only when the
\* prompt is answered with yes; sys.exit(0) otherwise
on_overwrite_prompt(exists, overwrite) ==
    IF exists /\ ~overwrite THEN "exit0" ELSE "create"

\* crud.py:199-218: the gcloud defaults, the user, the overwrite prompt
CreateResolve(p) ==
    /\ pc[p] = "gcloud"
    /\ \E gc \in GcloudConfigs, user \in Users, overwrite \in BOOLEAN :
         LET g == get_gcloud_config(op[p].project, op[p].location, gc) IN
         IF g.exc # ""
         THEN /\ Finish(p, g.exc)
              /\ UNCHANGED <<op, log>>
         ELSE LET exists == check_if_config_exists(yml, op[p].name)
                  answer == IF ~exists THEN << >>
                            ELSE IF overwrite THEN <<"overwrite_confirmed">>
                            ELSE <<"overwrite_declined">>
              IN  /\ log' = [log EXCEPT ![p] = @ \o answer]
                  /\ IF on_overwrite_prompt(exists, overwrite) = "exit0"
                     THEN /\ Finish(p, "exit0")
                          /\ UNCHANGED op
                     ELSE /\ op' = [op EXCEPT ![p].project = g.project,
                                              ![p].location = g.location,
                                              ![p].account = g.account,
                                              ![p].user = user]
                          /\ pc' = [pc EXCEPT ![p] = "remote_create"]
                          /\ UNCHANGED outcome
    /\ UNCHANGED <<stores, cwd, locals, pre, ghosts>>

\* core.py:177-182: the create request is submitted and awaited
RemoteCreate(p) ==
    /\ pc[p] = "remote_create"
    /\ \E fault \in BOOLEAN :
         LET r == create_workstation_request(remote, <<op[p].project, op[p].name>>,
                                             fault \/ invalid_request(op[p]))
             next == on_create_result(r.exc)
         IN  /\ remote' = r.remote
             /\ log' = [log EXCEPT ![p] =
                          @ \o <<"submit_create">>
                            \o (IF r.exc = "" THEN <<"create_done">> ELSE <<r.exc>>)]
             /\ IF next = "write_yml"
                THEN pc' = [pc EXCEPT ![p] = "write_yml"] /\ UNCHANGED outcome
                ELSE Finish(p, IF next = "exit1" THEN "exit1" ELSE r.exc)
    /\ UNCHANGED <<yml, ssh, op, cwd, locals, pre, ghosts>>

\* core.py:184-190: the descriptor is written; crud.py:232 comes next
WriteYml(p) ==
    /\ pc[p] = "write_yml"
    /\ \E fails \in BOOLEAN :
         LET r == write_configuration(yml, cwd[p], op[p].project, op[p].name,
                                      op[p].location, op[p].cluster, op[p].config,
                                      fails)
         IN  /\ yml' = r.yml
             /\ cwd' = [cwd EXCEPT ![p] = r.cwd]
             /\ IF r.exc = ""
                THEN /\ pc' = [pc EXCEPT ![p] = "ssh_scan"]
                     /\ log' = [log EXCEPT ![p] = Append(@, "write_yml")]
                     /\ written' = Record(written, op[p])
                     /\ UNCHANGED outcome
                ELSE /\ Finish(p, r.exc)
                     /\ UNCHANGED <<log, written>>
    /\ UNCHANGED <<ssh, remote, op, locals, pre, lastPort>>

\* what start, stop, delete and sync do with the descriptor they read
AfterRead(kind) ==
    CASE kind = "start" -> "remote_start"
      [] kind = "stop" -> "remote_stop"
      [] kind = "sync" -> "sync_port"
      [] OTHER -> "remote_delete"

\* crud.py:403, 434, 452, 481: the descriptor of the name is read
ReadDescriptor(p) ==
    /\ pc[p] = "read_cfg"
    /\ LET r == read_configuration(yml, op[p].name) IN
         /\ ret' = [ret EXCEPT ![p] = r]
         /\ IF r.exc = ""
            THEN pc' = [pc EXCEPT ![p] = AfterRead(op[p].kind)] /\ UNCHANGED outcome
            ELSE Finish(p, r.exc)
    /\ UNCHANGED <<stores, op, cwd, claimed, probes, held, log, pre, ghosts, sub>>

\* crud.py:454 and core.py:305-315: the delete request is submitted and awaited
RemoteDelete(p) ==
    /\ pc[p] = "remote_delete"
    /\ \E fault \in BOOLEAN :
         LET key == <<DictGet(ret[p].contents, "project"), DictGet(ret[p].contents, "name")>>
             r == delete_workstation_request(remote, key, fault)
         IN  /\ remote' = r.remote
             /\ log' = [log EXCEPT ![p] =
                          @ \o <<"submit_delete">>
                            \o (IF r.exc = "" THEN <<"delete_done">> ELSE <<r.exc>>)]
             /\ IF on_delete_result(r.exc) = "local_delete"
                THEN pc' = [pc EXCEPT ![p] = "local_delete"] /\ UNCHANGED outcome
                ELSE Finish(p, r.exc)
    /\ UNCHANGED <<yml, ssh, op, cwd, locals, pre, ghosts>>

\* crud.py:455-457: the two local files are removed
DeleteLocal(p) ==
    /\ pc[p] = "local_delete"
    /\ LET r == delete_configuration(yml, ssh, op[p].name) IN
         /\ yml' = r.yml
         /\ ssh' = r.ssh
         /\ Finish(p, Raised(r.exc))
         /\ log' = [log EXCEPT ![p] =
                      IF r.exc = "" THEN @ \o <<"unlink_config", "unlink_yml">> ELSE @]
         /\ lastPort' = IF r.exc = "" THEN 0 ELSE lastPort
         /\ written' = IF r.exc = "" THEN Forget(written, op[p].name) ELSE written
    /\ UNCHANGED <<remote, op, cwd, locals, pre>>

(***************************************************************************)
(* The other commands: list-configs, list, start, stop, sync, logs         *)
(***************************************************************************)
\* the workstations the provider can hold besides the ones this tool made:
\* one made by another user, one made without the tool
ListingOrder == <<"ws1", "ws2", "ws-bob", "ws-console">>
ListUsers == Users \cup {"bob", ""}

\* crud.py:247 and 286, list-configs and list with --project; crud.py:266-285,
\* list with --user, --all and --json
BeginList(p) ==
    \E project \in {None, "p2"}, location \in Locations, cluster \in Clusters :
       \/ BeginCommand(p, [NoOp EXCEPT !.kind = "list_configs", !.project = project,
                                       !.location = location, !.cluster = cluster])
       \/ \E user \in ListUsers, all \in BOOLEAN, json \in BOOLEAN :
            BeginCommand(p, [NoOp EXCEPT !.kind = "list", !.project = project,
                                         !.location = location, !.cluster = cluster,
                                         !.user = user, !.all = all, !.json = json])

\* crud.py:393, start --name with --code and --browser
BeginStart(p) ==
    \E name \in Names, code \in BOOLEAN, browser \in BOOLEAN :
      BeginCommand(p, [NoOp EXCEPT !.kind = "start", !.name = name,
                                   !.code = code, !.browser = browser])

\* crud.py:429, stop --name
BeginStop(p) ==
    \E name \in Names :
      BeginCommand(p, [NoOp EXCEPT !.kind = "stop", !.name = name])

\* crud.py:468, sync --name
BeginSync(p) ==
    \E name \in Names :
      BeginCommand(p, [NoOp EXCEPT !.kind = "sync", !.name = name])

\* crud.py:507, logs <name> --project
BeginLogs(p) ==
    \E name \in Names, project \in {None, "p1"} :
      BeginCommand(p, [NoOp EXCEPT !.kind = "logs", !.name = name,
                                   !.project = project])

\* core.py:53-98 and 318-362: list-configs asks for the usable configs, list
\* asks for them and then for the workstations of each
listing_calls(kind) ==
    IF kind = "list" THEN <<"list_configs", "list_workstations">>
    ELSE <<"list_configs">>

\* dict(envs): one item per key, a later pair of a key replacing the value
\* of an earlier one
dict(envs) ==
    {<<envs[i][1], envs[Max({j \in 1..Len(envs) : envs[j][1] = envs[i][1]})][2]>> :
        i \in 1..Len(envs)}

ProxyKeys == {"http_proxy", "HTTPS_PROXY", "https_proxy", "HTTP_PROXY"}
NoProxyKeys == {"no_proxy", "NO_PROXY"}

\* `if proxy:` is false for None and for the empty string
truthy(v) == v # None /\ v # ""

\* core.py:143-166: the env of the workstation that create_workstation asks for
create_workstation_env(user, account, proxy, no_proxy, envs) ==
    LET base == {<<"LDAP", user>>, <<"ACCOUNT", account>>}
        proxied == IF truthy(proxy)
                   THEN base \cup {<<k, proxy>> : k \in ProxyKeys}
                             \cup {<<k, no_proxy>> : k \in NoProxyKeys}
                   ELSE base
        user_envs == IF envs # << >> THEN dict(envs) ELSE {}
    IN  proxied \cup {kv \in user_envs : kv[1] \notin DictKeys(proxied)}

\* core.py:144-147 and crud.py:221-230: a workstation made by the tool carries
\* LDAP and ACCOUNT; one made without the tool carries neither
EnvOf(name) ==
    IF name \in Names
    THEN create_workstation_env("alice", "alice@example.com", None, None, << >>)
    ELSE IF name = "ws-bob" THEN {<<"LDAP", "bob">>, <<"ACCOUNT", "bob@example.com">>}
    ELSE {}

\* core.py:318-362: the workstations of the project, in the provider's order,
\* each with its name and env
list_workstations(remoteSet, project) ==
    LET names == SelectSeq(ListingOrder, LAMBDA n : <<project, n>> \in remoteSet)
    IN  [i \in 1..Len(names) |-> [name |-> names[i], env |-> EnvOf(names[i])]]

\* env.get("LDAP") of the provider's string map: None when the key is absent
env_get(env, k) == IF k \in DictKeys(env) THEN DictGet(env, k) ELSE None

\* env["LDAP"] of the provider's string map: the empty string when absent
env_index(env, k) == IF k \in DictKeys(env) THEN DictGet(env, k) ELSE ""

shown_as(w) == [name |-> w.name, user |-> env_index(w.env, "LDAP")]

list_tree_unfiltered(workstations, all, user) ==
    LET kept == workstations
    IN  [out |-> [i \in 1..Len(kept) |-> shown_as(kept[i])], total |-> Len(kept)]

\* crud.py:308-343: one branch per workstation that passes the filter, then
\* the number of branches
list_tree(workstations, all, user) ==
    LET kept == SelectSeq(workstations,
                   LAMBDA w : ~(~all /\ env_get(w.env, "LDAP") # user))
    IN  [out |-> [i \in 1..Len(kept) |-> shown_as(kept[i])], total |-> Len(kept)]

\* crud.py:344-366: one result per workstation that passes the filter; no
\* total is printed
list_json(workstations, all, user) ==
    LET kept == SelectSeq(workstations,
                   LAMBDA w : ~(~all /\ env_get(w.env, "LDAP") # user))
    IN  [out |-> [i \in 1..Len(kept) |-> shown_as(kept[i])], total |-> NotPrinted]

list_output(o, remoteSet, project) ==
    IF o.kind # "list" THEN [out |-> << >>, total |-> NotPrinted]
    ELSE IF o.json THEN list_json(list_workstations(remoteSet, project), o.all, o.user)
    ELSE list_tree(list_workstations(remoteSet, project), o.all, o.user)

\* crud.py:257-264 and 300-366: the gcloud defaults, the listing, the output
ListRun(p) ==
    /\ pc[p] = "gcloud_list"
    /\ \E gc \in GcloudConfigs, fault \in BOOLEAN :
         LET g == get_gcloud_config(op[p].project, op[p].location, gc) IN
         IF g.exc # ""
         THEN /\ Finish(p, g.exc)
              /\ UNCHANGED <<op, log, sub>>
         ELSE /\ op' = [op EXCEPT ![p].project = g.project,
                                  ![p].location = g.location,
                                  ![p].account = g.account]
              /\ log' = [log EXCEPT ![p] =
                           @ \o (IF fault THEN <<"list_configs", "ProviderError">>
                                 ELSE listing_calls(op[p].kind))]
              /\ Finish(p, IF fault THEN "ProviderError" ELSE "ok")
              /\ sub' = [sub EXCEPT ![p] =
                           IF fault THEN @
                           ELSE LET l == list_output(op[p], remote, g.project)
                                IN  [@ EXCEPT !.out = l.out, !.total = l.total]]
    /\ UNCHANGED <<stores, cwd, claimed, probes, held, ret, pre, ghosts>>

\* crud.py:398-401: --code and --browser exclude each other
start_flags(code, browser) == IF code /\ browser THEN "ValueError" ELSE ""

StartFlags(p) ==
    /\ pc[p] = "start_flags"
    /\ IF start_flags(op[p].code, op[p].browser) # ""
       THEN Finish(p, start_flags(op[p].code, op[p].browser))
       ELSE pc' = [pc EXCEPT ![p] = "read_cfg"] /\ UNCHANGED outcome
    /\ UNCHANGED <<stores, op, cwd, locals, log, pre, ghosts>>

\* the workstation the descriptor read by the command names
DescriptorKey(contents) == <<DictGet(contents, "project"), DictGet(contents, "name")>>

\* client.start_workstation / stop_workstation and operation.result(): the
\* provider refuses a workstation it does not have; `fault` is any other error
state_change_request(remoteSet, key, fault) ==
    IF key \notin remoteSet \/ fault THEN "ProviderError" ELSE ""

\* crud.py:405-418 and core.py:223-233: the start request is submitted and
\* awaited, then the URL is printed or opened
RemoteStart(p) ==
    /\ pc[p] = "remote_start"
    /\ \E fault \in BOOLEAN :
         LET exc == state_change_request(remote, DescriptorKey(ret[p].contents), fault)
         IN  /\ log' = [log EXCEPT ![p] =
                          @ \o <<"submit_start">>
                            \o (IF exc # "" THEN <<exc>>
                                ELSE IF op[p].code \/ op[p].browser
                                THEN <<"start_done", "open_browser">>
                                ELSE <<"start_done">>)]
             /\ Finish(p, Raised(exc))
    /\ UNCHANGED <<stores, op, cwd, locals, pre, ghosts>>

\* crud.py:435-436 and core.py:264-274: the stop request is submitted and awaited
RemoteStop(p) ==
    /\ pc[p] = "remote_stop"
    /\ \E fault \in BOOLEAN :
         LET exc == state_change_request(remote, DescriptorKey(ret[p].contents), fault)
         IN  /\ log' = [log EXCEPT ![p] =
                          @ \o <<"submit_stop">>
                            \o (IF exc # "" THEN <<exc>> ELSE <<"stop_done">>)]
             /\ Finish(p, Raised(exc))
    /\ UNCHANGED <<stores, op, cwd, locals, pre, ghosts>>

(***************************************************************************)
(* get_instance_assignment over the entries of the assignment log          *)
(***************************************************************************)
\* labels.get(k): None when the key is absent
labels_get(labels, k) == IF k \in DictKeys(labels) THEN DictGet(labels, k) ELSE None

\* utils.py:325-326: the f-string over instance_id and project
logs_url(instance_id, project) ==
    <<"https://console.cloud.google.com/logs/query;query=resource.type%3D%22gce_instance%22%0Aresource.labels.instance_id%3D%22",
      instance_id, "%22?project=", project>>

\* utils.py:303-333: entry.labels.get raises AttributeError on an entry
\* whose labels are None (has_labels is false)
process_entry(entry, project) ==
    IF ~entry.has_labels
    THEN [exc |-> "AttributeError", workstation_id |-> None, log_entry |-> None]
    ELSE [exc |-> "",
          workstation_id |-> labels_get(entry.resource_labels, "workstation_id"),
          log_entry |-> [instance_name |-> labels_get(entry.labels, "instance_name"),
                         instance_id |-> labels_get(entry.labels, "instance_id"),
                         logs_url |-> logs_url(labels_get(entry.labels, "instance_id"),
                                               project)]]

\* log_entries_dict[workstation_id] = log_entry
dict_set(d, k, v) == {kv \in d : kv[1] # k} \cup {<<k, v>>}

RECURSIVE assignment_loop_no_return(_, _, _, _, _)
assignment_loop_no_return(entries, i, project, name, d) ==
    IF i > Len(entries) THEN [instances |-> d, seen |-> Len(entries)]
    ELSE LET r == process_entry(entries[i], project) IN
         IF r.exc # ""
         THEN assignment_loop_no_return(entries, i + 1, project, name, d)
         ELSE assignment_loop_no_return(entries, i + 1, project, name,
                                        dict_set(d, r.workstation_id, r.log_entry))

\* utils.py:289-300: the loop over the entries, from entry i on with the
\* mapping d built so far; `seen` is the number of entries taken
RECURSIVE assignment_loop(_, _, _, _, _)
assignment_loop(entries, i, project, name, d) ==
    IF i > Len(entries) THEN [instances |-> d, seen |-> Len(entries)]
    ELSE LET r == process_entry(entries[i], project) IN
         IF r.exc # ""
         THEN assignment_loop(entries, i + 1, project, name, d)
         ELSE IF r.workstation_id = name
         THEN [instances |-> dict_set(d, r.workstation_id, r.log_entry), seen |-> i]
         ELSE assignment_loop(entries, i + 1, project, name,
                              dict_set(d, r.workstation_id, r.log_entry))

get_instance_assignment_no_return(entries, project, name) ==
    assignment_loop_no_return(entries, 1, project, name, {})
\* utils.py:261-300, after the credential check
get_instance_assignment(entries, project, name) ==
    assignment_loop(entries, 1, project, name, {})

\* what the assignment log may hold when logs runs: nothing, an entry of
\* the name, an entry of another name
AssignmentEntry(n) ==
    [resource_labels |-> {<<"workstation_id", n>>}, has_labels |-> TRUE,
     labels |-> {<<"instance_name", "vm-a">>, <<"instance_id", "11">>}]
AssignmentLogs == {<< >>} \cup {<<AssignmentEntry(n)>> : n \in Names}

\* crud.py:511-516: instance is instances.get(name, None); the test of line
\* 512 is on the mapping, which is never None, so a name without an entry
\* reaches instance.get, which raises AttributeError
logs_open(instances, name) ==
    IF name \notin DictKeys(instances)
    THEN [exc |-> "AttributeError", events |-> << >>]
    ELSE [exc |-> "", events |-> <<"open_browser">>]

\* crud.py:510-516 and utils.py:277-300: the credentials are checked again,
\* the assignment log is listed, and the entry of the name is opened
LogsRun(p) ==
    /\ pc[p] = "logs_assign"
    /\ \E cred \in Credentials, fault \in BOOLEAN, entries \in AssignmentLogs :
         IF check_gcloud_auth(cred) # "ok"
         THEN /\ log' = [log EXCEPT ![p] = @ \o <<"check_auth", cred>>]
              /\ Finish(p, "exit1")
              /\ UNCHANGED sub
         ELSE IF fault
         THEN /\ log' = [log EXCEPT ![p] =
                           @ \o <<"check_auth", cred, "list_entries", "ProviderError">>]
              /\ Finish(p, "ProviderError")
              /\ UNCHANGED sub
         ELSE LET r == get_instance_assignment(entries, op[p].project, op[p].name)
                  o == logs_open(r.instances, op[p].name)
              IN  /\ sub' = [sub EXCEPT ![p].instances = r.instances]
                  /\ log' = [log EXCEPT ![p] =
                               @ \o <<"check_auth", cred, "list_entries">> \o o.events]
                  /\ Finish(p, IF o.exc # "" THEN o.exc ELSE "ok")
    /\ UNCHANGED <<stores, op, cwd, claimed, probes, held, ret, pre, ghosts>>

(***************************************************************************)
(* sync_files_workstation, step by step                                    *)
(***************************************************************************)
\* utils.py:163, the first port of the sync tunnel
SyncBasePort == 61000
\* utils.py:164, range(20)
SyncProbeAttempts == 20
\* utils.py:210, the iterations the readiness wait may sleep
SyncWaitLimit == 10

sync_find_port_default_base(bound) ==
    probe_loop(DefaultPort, 0, SyncProbeAttempts, bound)
\* utils.py:163-169, the for/else probe loop of the sync tunnel
sync_find_port(bound) == probe_loop(SyncBasePort, 0, SyncProbeAttempts, bound)

\* the ports other local processes may hold while sync probes: none, the
\* first, all but the last candidate, all of them
SyncBoundSets ==
    {SyncBasePort..hi : hi \in {SyncBasePort - 1, SyncBasePort,
                                SyncBasePort + SyncProbeAttempts - 2,
                                SyncBasePort + SyncProbeAttempts - 1}}

\* utils.py:163-169
SyncPort(p) ==
    /\ pc[p] = "sync_port"
    /\ \E bound \in SyncBoundSets :
         LET ps == sync_find_port(bound) IN
           /\ probes' = [probes EXCEPT ![p] = ps]
           /\ IF Found(ps)
              THEN /\ sub' = [sub EXCEPT ![p].port = ChosenPort(ps)]
                   /\ pc' = [pc EXCEPT ![p] = "sync_spawn"]
                   /\ UNCHANGED outcome
              ELSE /\ Finish(p, "NoPortFree")
                   /\ UNCHANGED sub
    /\ UNCHANGED <<stores, op, cwd, claimed, held, ret, log, pre, ghosts>>

\* what subprocess.Popen and the poll() that follows may find: the gcloud
\* executable is missing (Popen raises, no process), the tunnel runs, or it
\* has already exited with status 0 or with another status
SpawnOutcomes == {"missing", "running", "exited0", "exited1"}

\* utils.py:171-191: only a tunnel that has exited with a non-zero status
\* stops the call; CalledProcessError is built without its cmd argument,
\* which raises TypeError
spawn_tunnel(how) ==
    CASE how = "missing" -> [exc |-> "OSError", tunnel |-> "none"]
      [] how = "running" -> [exc |-> "", tunnel |-> "running"]
      [] how = "exited0" -> [exc |-> "", tunnel |-> "exited"]
      [] OTHER -> [exc |-> "TypeError", tunnel |-> "exited"]

SyncSpawn(p) ==
    /\ pc[p] = "sync_spawn"
    /\ \E how \in SpawnOutcomes :
         LET r == spawn_tunnel(how) IN
           /\ sub' = [sub EXCEPT ![p].tunnel = r.tunnel]
           /\ log' = [log EXCEPT ![p] =
                        IF r.tunnel = "none" THEN @ ELSE Append(@, "spawn_tunnel")]
           /\ IF r.exc = ""
              THEN pc' = [pc EXCEPT ![p] = "sync_wait"] /\ UNCHANGED outcome
              ELSE Finish(p, r.exc)
    /\ UNCHANGED <<stores, op, cwd, claimed, probes, held, ret, pre, ghosts>>

wait_step_no_limit(bindable, counter) ==
    IF ~bindable THEN [next |-> "sync_rsync", counter |-> counter]
    ELSE [next |-> "sync_wait", counter |-> counter + 1]
\* utils.py:209-213, one evaluation of the while condition and of its body
wait_step(bindable, counter) ==
    IF ~bindable THEN [next |-> "sync_rsync", counter |-> counter]
    ELSE IF counter >= SyncWaitLimit THEN [next |-> "sync_rsync", counter |-> counter]
    ELSE [next |-> "sync_wait", counter |-> counter + 1]

\* utils.py:208-213: the port stays bindable until something listens on it
SyncWait(p) ==
    /\ pc[p] = "sync_wait"
    /\ \E bindable \in BOOLEAN :
         LET w == wait_step(bindable, sub[p].counter) IN
           /\ sub' = [sub EXCEPT ![p].counter = w.counter, ![p].checks = @ + 1]
           /\ pc' = [pc EXCEPT ![p] = w.next]
    /\ UNCHANGED <<stores, op, cwd, claimed, probes, held, outcome, ret, log, pre, ghosts>>

\* what subprocess.run may do: the rsync executable is missing (run raises),
\* or rsync runs and exits with status 0 or with another status
RsyncOutcomes == {"missing", "rc0", "rc1"}

\* utils.py:215-217: run, kill, return; an exception of run leaves the
\* function before process.kill()
run_rsync(how, tunnel) ==
    IF how = "missing"
    THEN [exc |-> "OSError", tunnel |-> tunnel, events |-> <<"run_rsync">>]
    ELSE [exc |-> "",
          tunnel |-> IF tunnel = "running" THEN "killed" ELSE tunnel,
          events |-> <<"run_rsync", "kill_tunnel">>]

\* utils.py:215-217 and crud.py:489-493
SyncRsync(p) ==
    /\ pc[p] = "sync_rsync"
    /\ \E how \in RsyncOutcomes :
         LET r == run_rsync(how, sub[p].tunnel) IN
           /\ sub' = [sub EXCEPT ![p].tunnel = r.tunnel, ![p].rsync = @ + 1,
                                 ![p].events = <<how>>]
           /\ log' = [log EXCEPT ![p] = @ \o r.events]
           /\ Finish(p, Raised(r.exc))
    /\ UNCHANGED <<stores, op, cwd, claimed, probes, held, ret, pre, ghosts>>

Next ==
    \/ BeginCreate(1)
    \/ BeginDelete(1)
    \/ Auth(1)
    \/ CreateResolve(1)
    \/ RemoteCreate(1)
    \/ WriteYml(1)
    \/ SshScan(1)
    \/ SshProbe(1)
    \/ SshWrite(1)
    \/ ReadDescriptor(1)
    \/ RemoteDelete(1)
    \/ DeleteLocal(1)
    \/ BeginList(1)
    \/ BeginStart(1)
    \/ BeginStop(1)
    \/ BeginLogs(1)
    \/ ListRun(1)
    \/ StartFlags(1)
    \/ RemoteStart(1)
    \/ RemoteStop(1)
    \/ LogsRun(1)
    \/ BeginSync(1)
    \/ SyncPort(1)
    \/ SyncSpawn(1)
    \/ SyncWait(1)
    \/ SyncRsync(1)

Spec == Init /\ [][Next]_vars

(***************************************************************************)
(* Properties of the ConfigManager calls made one at a time (SpecCM)       *)
(***************************************************************************)
StanzaPort(store, n) == port_line(store[n].lines)
Returned(p, kind) == pc[p] = "done" /\ op[p].kind = kind /\ outcome[p] = "ok"
Ended(p, kind) == pc[p] = "done" /\ op[p].kind = kind

\* C1: with write_ssh_config and delete_configuration run one at a time, no
\* two stanzas carry the same Port: each write picks a port that is not
\* among the ports parsed from the existing *.config files and that no
\* other process held when it was probed.
C1_UniquePorts ==
    /\ \A n1, n2 \in Names :
         (n1 # n2 /\ ssh[n1].exists /\ ssh[n2].exists)
            => StanzaPort(ssh, n1) \cap StanzaPort(ssh, n2) = {}
    /\ \A n \in Names : ssh[n].exists => Cardinality(StanzaPort(ssh, n)) = 1
    /\ \A p \in Procs : Returned(p, "write_ssh_config") =>
         /\ claimed[p] = claimed_ports(pre[p].ssh)
         /\ StanzaPort(ssh, op[p].name) \cap claimed[p] = {}
         /\ StanzaPort(ssh, op[p].name) \cap held[p] = {}

C1_Witness ==
    /\ Returned(1, "write_ssh_config")
    /\ \A n \in Names : ssh[n].exists
    /\ \E n \in Names : ~pre[1].ssh[n].exists
    /\ held[1] # {}

\* C2: write_ssh_config raises NoPortFree exactly when the 20 candidates
\* base .. base+19 were all held; it probes at most 20 candidates, and when
\* it raises it has written no file.
C2_NoPortFree ==
    \A p \in Procs : Ended(p, "write_ssh_config") =>
       /\ outcome[p] \in {"ok", "NoPortFree"}
       /\ outcome[p] = "NoPortFree" <=>
            \A i \in 0..19 : (first_candidate(claimed[p]) + i) \in held[p]
       /\ Len(probes[p]) <= 20
       /\ \A i \in 1..Len(probes[p]) :
             probes[p][i].port = first_candidate(claimed[p]) + i - 1
       /\ outcome[p] = "NoPortFree" => ssh = pre[p].ssh /\ yml = pre[p].yml

C2_Witness ==
    /\ Ended(1, "write_ssh_config")
    /\ outcome[1] = "NoPortFree"
    /\ Len(probes[1]) = 20
    /\ claimed[1] # {}

\* C3: sequential write_ssh_config calls with no deletion in between write
\* strictly increasing ports: each new port is greater than every port of
\* an existing stanza and than the port written by the call before.
C3_Increasing ==
    \A p \in Procs : Returned(p, "write_ssh_config") =>
       \A new \in StanzaPort(ssh, op[p].name) :
          /\ \A n \in Names : \A old \in StanzaPort(pre[p].ssh, n) : new > old
          /\ new > pre[p].lastPort
          /\ lastPort = new

C3_Witness ==
    /\ Returned(1, "write_ssh_config")
    /\ pre[1].lastPort # 0
    /\ ~pre[1].ssh[op[1].name].exists
    /\ \E n \in Names : pre[1].ssh[n].exists

\* C5: delete_configuration(name) removes both files of a name that has
\* both, and raises FileNotFoundError for a name that has no descriptor.
C5_Delete ==
    \A p \in Procs : Ended(p, "delete_configuration") =>
       LET n == op[p].name IN
       /\ (pre[p].yml[n].exists /\ pre[p].ssh[n].exists)
            => outcome[p] = "ok" /\ ~yml[n].exists /\ ~ssh[n].exists
       /\ ~pre[p].yml[n].exists
            => outcome[p] = "FileNotFoundError" /\ ssh = pre[p].ssh

C5_Witness ==
    /\ Returned(1, "delete_configuration")
    /\ pre[1].yml[op[1].name].exists
    /\ pre[1].ssh[op[1].name].exists
    /\ ~yml[op[1].name].exists

\* C6: read_configuration(name) after write_configuration returns exactly
\* the five values of the last write for that name.
AsMapping(a) ==
    {<<"project", a.project>>, <<"name", a.name>>, <<"location", a.location>>,
     <<"cluster", a.cluster>>, <<"config", a.config>>}

C6_RoundTrip ==
    /\ \A p \in Procs :
         (Ended(p, "read_configuration") /\ written[op[p].name] # NoArgs) =>
            /\ outcome[p] = "ok"
            /\ ret[p].contents = AsMapping(written[op[p].name])
    /\ \A p \in Procs : Returned(p, "write_configuration") =>
         /\ written[op[p].name] = ArgsOf(op[p])
         /\ read_configuration(yml, op[p].name).exc = ""
         /\ read_configuration(yml, op[p].name).contents = AsMapping(ArgsOf(op[p]))

C6_Witness ==
    /\ Returned(1, "read_configuration")
    /\ written[op[1].name] # NoArgs
    /\ DictGet(ret[1].contents, "project") = "p2"
    /\ DictGet(ret[1].contents, "name") = op[1].name
    /\ \E n \in Names : written[n] # NoArgs /\ written[n].project = "p1"

(***************************************************************************)
(* Two processes run write_ssh_config at the same time (SpecRace)          *)
(***************************************************************************)
\* the stanza an earlier, finished write_ssh_config left for name n
Stanza(n, port) ==
    File(config_content(n, port, "alice",
                        proxy_command("p1", "cluster-public", "cfg", "us-central1")))

\* configs directories that sequential calls leave behind
EarlierStores ==
    {EmptyStore}
    \cup {[EmptyStore EXCEPT ![n] = Stanza(n, DefaultPort)] : n \in Names}
    \cup {[n \in Names |-> Stanza(n, IF n = m THEN DefaultPort ELSE DefaultPort + 1)] :
            m \in Names}

InitRace == \E s \in EarlierStores : InitOver(EmptyStore, s)

\* each process is one invocation
RaceStart(p) == pc[p] = "idle" /\ CallWriteSshConfig(p)

NextRace ==
    \E p \in Procs :
       \/ RaceStart(p)
       \/ SshScan(p)
       \/ SshProbe(p)
       \/ SshWrite(p)

SpecRace == InitRace /\ [][NextRace]_vars

\* C4: nothing keeps two concurrent write_ssh_config calls for different
\* names apart: when both built the same ports list (each scanned before the
\* other wrote) and both probes stopped at the same candidate, each writes
\* that candidate, and the two stanzas carry the same Port.
C4_SamePort ==
    \A p, q \in Procs :
       ( /\ p # q
         /\ Returned(p, "write_ssh_config")
         /\ Returned(q, "write_ssh_config")
         /\ op[p].name # op[q].name
         /\ claimed[p] = claimed[q]
         /\ Len(probes[p]) = Len(probes[q]) )
       => /\ StanzaPort(ssh, op[p].name) = {ChosenPort(probes[p])}
          /\ StanzaPort(ssh, op[q].name) = {ChosenPort(probes[p])}

C4_Witness ==
    /\ Returned(1, "write_ssh_config")
    /\ Returned(2, "write_ssh_config")
    /\ op[1].name # op[2].name
    /\ claimed[1] = claimed[2]
    /\ StanzaPort(ssh, "ws1") = StanzaPort(ssh, "ws2")
    /\ StanzaPort(ssh, "ws1") # {}
    /\ claimed[1] # {}

(***************************************************************************)
(* read_configuration over descriptor files with keys missing (SpecRead)   *)
(***************************************************************************)
FullLines(n) == generate_workstation_yml(WorkstationConfig("p1", n, "us-central1",
                                                          "cluster-public", "cfg"))
OtherLine == [key |-> "note", val |-> "x"]
KeySet == {RequiredKeys[i] : i \in 1..Len(RequiredKeys)}

\* the descriptor of n with only the keys of S, alone or with a foreign key
PartialFiles(n) ==
    {File(SelectSeq(FullLines(n), LAMBDA l : l.key \in S)) : S \in SUBSET KeySet}
    \cup {File(SelectSeq(FullLines(n), LAMBDA l : l.key \in S) \o <<OtherLine>>) :
            S \in SUBSET KeySet}

InitRead ==
    \E y \in [Names -> UNION {PartialFiles(n) : n \in Names} \cup {NoFile}] :
       /\ \A n \in Names : y[n] \in PartialFiles(n) \cup {NoFile}
       /\ InitOver(y, EmptyStore)

NextRead == CallReadConfiguration(1)

SpecRead == InitRead /\ [][NextRead]_vars

FileKeys(f) == {f.lines[i].key : i \in 1..Len(f.lines)}
MissingIn(f) == KeySet \ FileKeys(f)
Listed(seq) == {seq[i] : i \in 1..Len(seq)}

\* C7: read_configuration on a descriptor file that lacks a non-empty set M
\* of the five required keys fails with an error that lists exactly the keys
\* of M (also when all five are absent), and returns the contents only when
\* M is empty.
C7_MissingKeysListed ==
    \A p \in Procs :
       (Ended(p, "read_configuration") /\ pre[p].yml[op[p].name].exists) =>
          LET M == MissingIn(pre[p].yml[op[p].name]) IN
          IF M = {}
          THEN outcome[p] = "ok" /\ KeySet \subseteq DictKeys(ret[p].contents)
          ELSE /\ outcome[p] = "KeyError"
               /\ Listed(ret[p].missing) = M
               /\ Len(ret[p].missing) = Cardinality(M)


(***************************************************************************)
(* Properties of the create and delete commands (Spec)                     *)
(***************************************************************************)
Has(l, e) == \E i \in 1..Len(l) : l[i] = e
Pos(l, e) == Min({i \in 1..Len(l) : l[i] = e})
Count(l, e) == Cardinality({i \in 1..Len(l) : l[i] = e})
\* b happens in l only after a has
Before(l, a, b) == Has(l, b) => (Has(l, a) /\ Pos(l, a) < Pos(l, b))
Key(p) == <<op[p].project, op[p].name>>

\* C8: after every finished create or delete command, whether it succeeded
\* or failed, a name has a YAML descriptor iff it has an SSH stanza.
C8_DescriptorIffStanza ==
    \A p \in Procs :
       (pc[p] = "done" /\ op[p].kind \in {"create", "delete"}) =>
          \A n \in Names : yml[n].exists <=> ssh[n].exists

C10_AlreadyExists ==
    \A p \in Procs : (op[p].kind = "create" /\ Has(log[p], "submit_create")) =>
       /\ Key(p) \in pre[p].remote <=> Has(log[p], "AlreadyExists")
       /\ Has(log[p], "AlreadyExists") =>
            /\ pc[p] = "done"
            /\ outcome[p] = "exit1"
            /\ Count(log[p], "submit_create") = 1
            /\ log[p][Len(log[p])] = "AlreadyExists"
            /\ yml = pre[p].yml
            /\ ssh = pre[p].ssh
            /\ remote = pre[p].remote

C10_Witness ==
    /\ Ended(1, "create")
    /\ Has(log[1], "AlreadyExists")
    /\ outcome[1] = "exit1"
    /\ yml[op[1].name].exists
    /\ ssh[op[1].name].exists

\* C11: delete removes the local descriptor and stanza only after the remote
\* delete was submitted and awaited to completion; when the remote delete
\* raises, both local stores are left as the command found them.
C11_DeleteOrder ==
    \A p \in Procs : op[p].kind = "delete" =>
       /\ Before(log[p], "submit_delete", "delete_done")
       /\ Before(log[p], "delete_done", "unlink_config")
       /\ Before(log[p], "delete_done", "unlink_yml")
       /\ (yml # pre[p].yml \/ ssh # pre[p].ssh) =>
            /\ Has(log[p], "delete_done")
            /\ <<DictGet(ret[p].contents, "project"), op[p].name>> \in pre[p].remote \ remote
       /\ (Has(log[p], "submit_delete") /\ ~Has(log[p], "delete_done")) =>
            /\ pc[p] = "done"
            /\ outcome[p] = "ProviderError"
            /\ yml = pre[p].yml
            /\ ssh = pre[p].ssh

C11_Witness ==
    /\ Ended(1, "delete")
    /\ Has(log[1], "submit_delete")
    /\ ~Has(log[1], "delete_done")
    /\ yml[op[1].name].exists
    /\ ssh[op[1].name].exists
    /\ <<DictGet(ret[1].contents, "project"), op[1].name>> \in remote

(***************************************************************************)
(* Properties of all the commands (Spec)                                   *)
(***************************************************************************)
Commands == {"create", "list_configs", "list", "start", "stop", "delete",
             "sync", "logs"}
ApiCalls == {"submit_create", "submit_delete", "submit_start", "submit_stop",
             "list_configs", "list_workstations", "list_entries"}
FileWrites == {"write_yml", "write_ssh", "unlink_config", "unlink_yml"}
Subprocesses == {"spawn_tunnel", "run_rsync", "open_browser"}
Effects == ApiCalls \cup FileWrites \cup Subprocesses

NoEffects(l) == \A i \in 1..Len(l) : l[i] \notin Effects
StoresAsFound(p) == yml = pre[p].yml /\ ssh = pre[p].ssh /\ remote = pre[p].remote
FirstCheck(p) == IF Len(log[p]) >= 2 THEN log[p][2] ELSE "none"

\* C12: in every command the credential check comes before any provider
\* call, local file write and subprocess; a check that fails ends the
\* process with code 1 and none of those has happened.
C12_AuthFirst ==
    \A p \in Procs : op[p].kind \in Commands =>
       /\ log[p] # << >> => log[p][1] = "check_auth"
       /\ ~NoEffects(log[p]) => FirstCheck(p) = "valid"
       /\ (~StoresAsFound(p) \/ sub[p].tunnel # "none") => FirstCheck(p) = "valid"
       /\ \A i \in 1..Len(log[p]) : log[p][i] \in {"missing", "expired"} =>
            /\ i = Len(log[p])
            /\ pc[p] = "done"
            /\ outcome[p] = "exit1"
       /\ FirstCheck(p) \in {"missing", "expired"} =>
            /\ Len(log[p]) = 2
            /\ StoresAsFound(p)
            /\ sub[p] = NoSub

C12_Witness ==
    /\ Ended(1, "delete")
    /\ FirstCheck(1) = "expired"
    /\ outcome[1] = "exit1"
    /\ yml[op[1].name].exists
    /\ ssh[op[1].name].exists
    /\ remote # {}

NeedDescriptor == {"start", "stop", "delete", "sync"}
NothingDone(p) ==
    /\ NoEffects(log[p])
    /\ StoresAsFound(p)
    /\ sub[p].tunnel = "none"
    /\ sub[p].rsync = 0

C17_TunnelTerminated ==
    \A p \in Procs :
       (Ended(p, "sync") /\ Has(log[p], "spawn_tunnel")) => sub[p].tunnel # "running"

\* C18: the readiness wait sleeps at most 10 times and evaluates its
\* condition at most 11 times, so it ends; after it the directory sync is
\* run exactly once, also when the port was still bindable after the 10th
\* sleep.
C18_BoundedWait ==
    \A p \in Procs : op[p].kind = "sync" =>
       /\ sub[p].counter <= 10
       /\ sub[p].checks <= 11
       /\ sub[p].counter <= sub[p].checks
       /\ pc[p] = "sync_wait" => sub[p].checks = sub[p].counter
       /\ sub[p].rsync = Count(log[p], "run_rsync")
       /\ sub[p].rsync <= 1
       /\ sub[p].rsync = 1 => pc[p] = "done"
       /\ (pc[p] = "done" /\ sub[p].checks > 0) => sub[p].rsync = 1
       /\ pc[p] = "sync_rsync" =>
            (sub[p].checks = sub[p].counter + 1 /\ sub[p].rsync = 0)

C18_Witness ==
    /\ Ended(1, "sync")
    /\ sub[1].counter = 10
    /\ sub[1].checks = 11
    /\ sub[1].rsync = 1
    /\ outcome[1] = "ok"

(***************************************************************************)
(* The ProxyCommand of a stanza, run by the shell when ssh connects        *)
(***************************************************************************)
\* the ProxyCommand line of the stanza of name n
ProxyOf(sshStore, n) ==
    LET ls == sshStore[n].lines
    IN  ls[CHOOSE i \in 1..Len(ls) : ls[i].key = "ProxyCommand"].val

Script(p) == ProxyOf(ssh, op[p].name).script
Statement(p) == Script(p)[sub[p].ip + 1]
Emit(p, e) == Append(sub[p].events, e)

\* the EXIT trap: cleanup() kills the children of the shell
sh_exit(trap, tunnel) == IF trap /\ tunnel = "running" THEN "killed" ELSE tunnel

\* ssh <name>: the shell starts on the first statement of the script
ProxyStart(p) ==
    \E n \in Names :
      /\ ssh[n].exists
      /\ BeginRunning(p, [NoOp EXCEPT !.kind = "proxy_command", !.name = n], "sh")
      /\ UNCHANGED <<stores, cwd, ghosts>>

\* config.py:276-284, the statements before the loop
ShStep(p) ==
    /\ pc[p] = "sh"
    /\ sub[p].ip < Len(Script(p))
    /\ LET st == Statement(p) IN
         /\ st.cmd \in {"def_cleanup", "trap_exit", "tunnel_bg", "set_timeout"}
         /\ sub' = [sub EXCEPT
                      ![p].ip = @ + 1,
                      ![p].trap = IF st.cmd = "trap_exit" THEN TRUE ELSE @,
                      ![p].tunnel = IF st.cmd = "tunnel_bg" THEN "running" ELSE @,
                      ![p].timeout = IF st.cmd = "set_timeout" THEN st.arg ELSE @,
                      ![p].events = IF st.cmd \in {"trap_exit", "tunnel_bg"}
                                    THEN Emit(p, st.cmd) ELSE @]
    /\ UNCHANGED <<stores, pc, op, cwd, claimed, probes, held, outcome, ret, log,
                   pre, ghosts>>

\* config.py:285-291, one turn of the loop: nc -z, and when it fails sleep 1,
\* the countdown, and exit 1 at 0
ShProbe(p) ==
    /\ pc[p] = "sh"
    /\ sub[p].ip < Len(Script(p))
    /\ Statement(p).cmd = "wait_loop"
    /\ \E reachable \in BOOLEAN :
         IF reachable
         THEN /\ sub' = [sub EXCEPT ![p].ip = @ + 1,
                                    ![p].events = Emit(p, "probe_ok")]
              /\ UNCHANGED <<pc, outcome>>
         ELSE IF sub[p].timeout - 1 <= 0
         THEN /\ sub' = [sub EXCEPT ![p].failed = @ + 1,
                                    ![p].timeout = @ - 1,
                                    ![p].tunnel = sh_exit(sub[p].trap, @),
                                    ![p].events = Emit(p, "probe_fail")]
              /\ Finish(p, "exit1")
         ELSE /\ sub' = [sub EXCEPT ![p].failed = @ + 1,
                                    ![p].timeout = @ - 1,
                                    ![p].events = Emit(p, "probe_fail")]
              /\ UNCHANGED <<pc, outcome>>
    /\ UNCHANGED <<stores, op, cwd, claimed, probes, held, ret, log, pre, ghosts>>

\* config.py:292, nc localhost %p carries the connection
ShStream(p) ==
    /\ pc[p] = "sh"
    /\ sub[p].ip < Len(Script(p))
    /\ Statement(p).cmd = "stream"
    /\ sub' = [sub EXCEPT ![p].ip = @ + 1, ![p].stream = "running",
                          ![p].events = Emit(p, "stream")]
    /\ UNCHANGED <<stores, pc, op, cwd, claimed, probes, held, outcome, ret, log,
                   pre, ghosts>>

\* the stream ends, the script is over and the shell exits with nc's status
ShEnd(p) ==
    /\ pc[p] = "sh"
    /\ sub[p].ip = Len(Script(p))
    /\ \E status \in {"exit0", "exit1"} :
         /\ sub' = [sub EXCEPT
                      ![p].stream = IF @ = "running" THEN "ended" ELSE @,
                      ![p].tunnel = sh_exit(sub[p].trap, @)]
         /\ Finish(p, status)
    /\ UNCHANGED <<stores, op, cwd, claimed, probes, held, ret, log, pre, ghosts>>

\* the tunnel process may end by itself at any time
TunnelExits(p) ==
    /\ pc[p] = "sh"
    /\ sub[p].tunnel = "running"
    /\ sub' = [sub EXCEPT ![p].tunnel = "exited"]
    /\ UNCHANGED <<stores, pc, op, cwd, claimed, probes, held, outcome, ret, log,
                   pre, ghosts>>

NextProxy ==
    \/ CallWriteSshConfig(1)
    \/ SshScan(1)
    \/ SshProbe(1)
    \/ SshWrite(1)
    \/ ProxyStart(1)
    \/ ShStep(1)
    \/ ShProbe(1)
    \/ ShStream(1)
    \/ ShEnd(1)
    \/ TunnelExits(1)

SpecProxy == Init /\ [][NextProxy]_vars

Running(p) == op[p].kind = "proxy_command"

\* C14: when the port never becomes reachable the ProxyCommand exits with
\* status 1 when its countdown from 10 reaches 0, that is after 10 failed
\* probes, without having started the stream; no run makes more than 10
\* failed probes.
C14_Countdown ==
    \A p \in Procs : Running(p) =>
       /\ sub[p].failed <= 10
       /\ sub[p].failed = Count(sub[p].events, "probe_fail")
       /\ sub[p].failed > 0 => sub[p].timeout = 10 - sub[p].failed
       /\ sub[p].failed = 10 =>
            /\ pc[p] = "done"
            /\ outcome[p] = "exit1"
            /\ sub[p].stream = "none"
       /\ (pc[p] = "done" /\ ~Has(sub[p].events, "probe_ok")) =>
            /\ sub[p].failed = 10
            /\ sub[p].timeout = 0
            /\ outcome[p] = "exit1"
            /\ sub[p].stream = "none"

C14_Witness ==
    /\ Ended(1, "proxy_command")
    /\ outcome[1] = "exit1"
    /\ sub[1].failed = 10
    /\ sub[1].stream = "none"
    /\ sub[1].tunnel = "exited"

\* C15: the tunnel never runs without the EXIT trap installed, and on both
\* exit paths (countdown expired, stream ended) the tunnel started by the
\* command is not left running.
C15_TrapCleanup ==
    \A p \in Procs : Running(p) =>
       /\ sub[p].tunnel = "running" => sub[p].trap
       /\ Before(sub[p].events, "trap_exit", "tunnel_bg")
       /\ pc[p] = "done" =>
            /\ sub[p].tunnel \in {"killed", "exited"}
            /\ sub[p].trap

C15_Witness ==
    /\ Ended(1, "proxy_command")
    /\ sub[1].stream = "ended"
    /\ sub[1].tunnel = "killed"
    /\ sub[1].failed > 0

\* C16: the tunnel is started before the first reachability probe, and the
\* stream is started only after a probe has succeeded.
C16_ProbeOrder ==
    \A p \in Procs : Running(p) =>
       /\ Before(sub[p].events, "tunnel_bg", "probe_fail")
       /\ Before(sub[p].events, "tunnel_bg", "probe_ok")
       /\ Before(sub[p].events, "probe_ok", "stream")
       /\ sub[p].stream # "none" =>
            /\ Has(sub[p].events, "probe_ok")
            /\ sub[p].tunnel # "none"
       /\ (sub[p].failed > 0 \/ Has(sub[p].events, "probe_ok")) => sub[p].tunnel # "none"

C16_Witness ==
    /\ Running(1)
    /\ pc[1] = "sh"
    /\ sub[1].stream = "running"
    /\ sub[1].failed = 9
    /\ sub[1].tunnel = "running"

(***************************************************************************)
(* Properties of the descriptors in the store (Spec)                       *)
(***************************************************************************)
DescriptorOf(n) == read_configuration(yml, n)

EditedStanza(n, ls) ==
    LET st == Stanza(n, DefaultPort).lines
    IN  File(SubSeq(st, 1, 2) \o ls \o SubSeq(st, 4, Len(st)))

\* what a hand may leave in the place of the Port line: the line as written
\* ("Port 6001"), no line, "Port abc", "Port 6001x", "Port" alone
PortLineEdits ==
    { << [key |-> "Port", val |-> DefaultPort + 1] >>,
      << >>,
      << [key |-> "Port", junk |-> "abc"] >>,
      << [key |-> "Port", val |-> DefaultPort + 1, junk |-> "x"] >>,
      << [key |-> "Port", junk |-> ""] >> }

InitScan ==
    \E s \in [Names -> {NoFile} \cup UNION {{EditedStanza(n, ls) : ls \in PortLineEdits} :
                                             n \in Names}] :
       /\ \A n \in Names : s[n].exists => s[n].lines[1].val = n
       /\ InitOver(EmptyStore, s)

NextScan ==
    \/ CallWriteSshConfig(1)
    \/ SshScan(1)
    \/ SshProbe(1)
    \/ SshWrite(1)

SpecScan == InitScan /\ [][NextScan]_vars

\* the ports of the well-formed Port lines of the stanzas of a store
WellFormedPorts(store) ==
    UNION {{store[n].lines[i].val : i \in {j \in 1..Len(store[n].lines) :
                                            /\ store[n].lines[j].key = "Port"
                                            /\ DOMAIN store[n].lines[j] = {"key", "val"}}} :
           n \in {m \in Names : store[m].exists}}

\* C20: the first candidate is 6000 when no stanza claims a port and the
\* largest claimed port plus one otherwise; a stanza whose Port line is
\* missing or malformed claims no port and does not make the call fail.
C20_FirstCandidate ==
    \A p \in Procs : (Ended(p, "write_ssh_config") /\ probes[p] # << >>) =>
       /\ outcome[p] \in {"ok", "NoPortFree"}
       /\ probes[p][1].port =
            IF WellFormedPorts(pre[p].ssh) = {} THEN 6000
            ELSE Max(WellFormedPorts(pre[p].ssh)) + 1

(***************************************************************************)
(* Properties of the stanza that write_ssh_config writes (SpecCM)          *)
(***************************************************************************)
LinesOf(f, k) == {i \in 1..Len(f.lines) : f.lines[i].key = k}
LineVal(f, k) == f.lines[CHOOSE i \in LinesOf(f, k) : TRUE].val

\* C21: the stanza written by write_ssh_config(name, user, project, cluster,
\* config, region) has Host name, the allocated port on its Port line, User
\* user and a ProxyCommand for exactly that project, cluster, config and
\* region; it is the file of that name and replaces the stanza the name had,
\* leaving the stanzas of the other names alone.
C21_StanzaContent ==
    \A p \in Procs : Returned(p, "write_ssh_config") =>
       LET f == ssh[op[p].name] IN
         /\ f.exists
         /\ \A k \in {"Host", "Port", "User", "ProxyCommand"} :
               Cardinality(LinesOf(f, k)) = 1
         /\ f.lines[1] = [key |-> "Host", val |-> op[p].name]
         /\ LineVal(f, "Port") = ChosenPort(probes[p])
         /\ LineVal(f, "User") = op[p].user
         /\ LineVal(f, "ProxyCommand").project = op[p].project
         /\ LineVal(f, "ProxyCommand").cluster = op[p].cluster
         /\ LineVal(f, "ProxyCommand").config = op[p].config
         /\ LineVal(f, "ProxyCommand").region = op[p].location
         /\ \A n \in Names \ {op[p].name} : ssh[n] = pre[p].ssh[n]

C21_Witness ==
    /\ Returned(1, "write_ssh_config")
    /\ pre[1].ssh[op[1].name].exists
    /\ LineVal(pre[1].ssh[op[1].name], "ProxyCommand").project = "p1"
    /\ LineVal(ssh[op[1].name], "ProxyCommand").project = "p2"
    /\ LineVal(ssh[op[1].name], "Port") # LineVal(pre[1].ssh[op[1].name], "Port")
    /\ \E n \in Names \ {op[1].name} : ssh[n].exists


(***************************************************************************)
(* The list command over a provider that also holds workstations of        *)
(* other users and workstations made without the tool                      *)
(***************************************************************************)
ProviderSets ==
    SUBSET {<<"p1", "ws1">>, <<"p1", "ws-bob">>, <<"p1", "ws-console">>,
            <<"p2", "ws2">>, <<"p2", "ws-bob">>}

InitList == \E r \in ProviderSets : InitWith(EmptyStore, EmptyStore, r)

NextList == BeginList(1) \/ Auth(1) \/ ListRun(1)

SpecList == InitList /\ [][NextList]_vars

NamesOf(seq) == [i \in 1..Len(seq) |-> seq[i].name]

\* the workstations the listing returned to the command of p
Listed_(p) == list_workstations(remote, op[p].project)

\* C22: list with user filter u and without --all outputs exactly the
\* workstations whose env has LDAP equal to u; with --all it outputs every
\* workstation of the listing; the tree and the JSON output select the same
\* workstations, and the printed total is the number of workstations shown.
C22_ListFilter ==
    \A p \in Procs : Returned(p, "list") =>
       LET ws == Listed_(p)
           expected == SelectSeq(ws, LAMBDA w :
                          op[p].all \/ <<"LDAP", op[p].user>> \in w.env)
       IN  /\ NamesOf(sub[p].out) = NamesOf(expected)
           /\ list_tree(ws, op[p].all, op[p].user).out
                = list_json(ws, op[p].all, op[p].user).out
           /\ ~op[p].json => sub[p].total = Len(sub[p].out)

C22_Witness ==
    /\ Returned(1, "list")
    /\ ~op[1].all /\ ~op[1].json /\ op[1].user = "bob"
    /\ Len(Listed_(1)) = 3
    /\ NamesOf(sub[1].out) = <<"ws-bob">>
    /\ sub[1].total = 1


(***************************************************************************)
(* The env that create_workstation builds, over user-supplied pairs        *)
(***************************************************************************)
MaxEnvs == 2
EnvKeys == {"KEY1", "LDAP", "http_proxy"}
EnvVals == {"v1", "v2"}
Proxies == {None, "", "proxy:3128"}
NoProxies == {None, "localhost"}
EnvTuples == UNION {[1..n -> EnvKeys \X EnvVals] : n \in 0..MaxEnvs}

InitEnv ==
    \E user \in Users, account \in Accounts, proxy \in Proxies,
       no_proxy \in NoProxies, envs \in EnvTuples :
       InitFull(EmptyStore, EmptyStore, {},
                [NoOp EXCEPT !.kind = "create_workstation", !.user = user,
                             !.account = account],
                [NoSub EXCEPT !.proxy = proxy, !.no_proxy = no_proxy,
                              !.envs = envs])

\* core.py:143-166, up to the request
BuildEnv(p) ==
    /\ pc[p] = "idle"
    /\ op[p].kind = "create_workstation"
    /\ sub' = [sub EXCEPT ![p].env =
                 create_workstation_env(op[p].user, op[p].account, sub[p].proxy,
                                        sub[p].no_proxy, sub[p].envs)]
    /\ Finish(p, "ok")
    /\ UNCHANGED <<stores, op, cwd, claimed, probes, held, ret, log, pre, ghosts>>

NextEnv == BuildEnv(1)

SpecEnv == InitEnv /\ [][NextEnv]_vars

\* the env before the user-supplied pairs are looked at
EnvBefore(p) ==
    create_workstation_env(op[p].user, op[p].account, sub[p].proxy,
                           sub[p].no_proxy, << >>)

\* the first user-supplied pair of key k
FirstOf(envs, k) == envs[Min({i \in 1..Len(envs) : envs[i][1] = k})]

\* C23: the env sent by create_workstation maps LDAP to the user and ACCOUNT
\* to the account; a user-supplied pair whose key is not in the env when the
\* pair is reached is added with its value, and a user-supplied pair whose
\* key is in the env never changes the value of that key.
C23_EnvMerge ==
    \A p \in Procs : Returned(p, "create_workstation") =>
       LET env == sub[p].env
           envs == sub[p].envs
           before == EnvBefore(p)
           supplied == {envs[i][1] : i \in 1..Len(envs)}
       IN  /\ <<"LDAP", op[p].user>> \in env
           /\ <<"ACCOUNT", op[p].account>> \in env
           /\ DictKeys(env) = DictKeys(before) \cup supplied
           /\ \A k \in DictKeys(env) : Cardinality({kv \in env : kv[1] = k}) = 1
           /\ \A k \in DictKeys(before) : DictGet(env, k) = DictGet(before, k)
           /\ \A k \in supplied \ DictKeys(before) :
                 DictGet(env, k) = FirstOf(envs, k)[2]


(***************************************************************************)
(* get_gcloud_config over explicit values and gcloud configurations        *)
(***************************************************************************)
ExplicitProjects == {None, "", "p1", "p2"}
ExplicitLocations == {None, "us-central1", "europe-west1"}

InitGcloud ==
    \E project \in ExplicitProjects, location \in ExplicitLocations,
       gc \in GcloudConfigs :
       InitFull(EmptyStore, EmptyStore, {},
                [NoOp EXCEPT !.kind = "get_gcloud_config", !.project = project,
                             !.location = location],
                [NoSub EXCEPT !.gc = gc])

\* crud.py:71-108
CallGetGcloudConfig(p) ==
    /\ pc[p] = "idle"
    /\ op[p].kind = "get_gcloud_config"
    /\ LET g == get_gcloud_config(op[p].project, op[p].location, sub[p].gc)
       IN  /\ sub' = [sub EXCEPT ![p].got =
                         IF g.exc # "" THEN @
                         ELSE [project |-> g.project, region |-> g.location,
                               account |-> g.account],
                                 ![p].msg = g.msg]
           /\ Finish(p, IF g.exc # "" THEN g.exc ELSE "ok")
    /\ UNCHANGED <<stores, op, cwd, claimed, probes, held, ret, log, pre, ghosts>>

NextGcloud == CallGetGcloudConfig(1)

SpecGcloud == InitGcloud /\ [][NextGcloud]_vars

\* the explicit value when one is passed, else the default
Preferred(explicit, default) == IF explicit # None THEN explicit ELSE default

\* C24: get_gcloud_config returns the project and the location passed
\* explicitly and else those of the gcloud default configuration, with the
\* account of that configuration; it raises an error that names what is
\* missing when the project or the location is in neither source or the
\* account is not in the gcloud configuration.
C24_GcloudConfig ==
    \A p \in Procs : Ended(p, "get_gcloud_config") =>
       LET gc == sub[p].gc
           project == Preferred(op[p].project, gc.project)
           location == Preferred(op[p].location, gc.region)
       IN  IF project = None
           THEN outcome[p] = "ValueError" /\ sub[p].got = NoGcloud
                /\ sub[p].msg = "Project not found in gcloud config and was not passed in."
           ELSE IF location = None
           THEN outcome[p] = "ValueError" /\ sub[p].got = NoGcloud
                /\ sub[p].msg = "Location not found in gcloud config and was not passed in."
           ELSE IF gc.account = None
           THEN outcome[p] = "ValueError" /\ sub[p].got = NoGcloud
                /\ sub[p].msg = "Account not found in gcloud config."
           ELSE /\ outcome[p] = "ok"
                /\ sub[p].got = [project |-> project, region |-> location,
                                 account |-> gc.account]

C24_Witness ==
    /\ Returned(1, "get_gcloud_config")
    /\ op[1].project = "p2" /\ sub[1].gc.project = "p1"
    /\ op[1].location = None
    /\ sub[1].got = [project |-> "p2", region |-> "us-central1",
                     account |-> "alice@example.com"]


(***************************************************************************)
(* The port of the tunnel that sync opens                                  *)
(***************************************************************************)
\* the port pass of the sync of p has run
SyncPassed(p) == op[p].kind = "sync" /\ probes[p] # << >>

\* C25: sync probes 61000, 61001, ... and at most 20 ports, whatever ports
\* the stanzas claim; the tunnel uses a port of 61000..61019, or the command
\* ends with NoPortFree and no subprocess was started; no stanza and no
\* descriptor changes during a sync.
C25_SyncPort ==
    \A p \in Procs : op[p].kind = "sync" =>
       /\ yml = pre[p].yml
       /\ ssh = pre[p].ssh
       /\ SyncPassed(p) =>
            /\ Len(probes[p]) <= 20
            /\ \A i \in 1..Len(probes[p]) : probes[p][i].port = 61000 + i - 1
            /\ IF Found(probes[p])
               THEN /\ sub[p].port = ChosenPort(probes[p])
                    /\ sub[p].port \in 61000..61019
               ELSE /\ Len(probes[p]) = 20
                    /\ pc[p] = "done" /\ outcome[p] = "NoPortFree"
                    /\ sub[p].tunnel = "none" /\ sub[p].rsync = 0
                    /\ ~Has(log[p], "spawn_tunnel") /\ ~Has(log[p], "run_rsync")
       /\ (sub[p].tunnel # "none" \/ sub[p].rsync > 0) =>
            (SyncPassed(p) /\ Found(probes[p]))

C25_Witness ==
    /\ Ended(1, "sync")
    /\ Has(log[1], "spawn_tunnel")
    /\ sub[1].port = 61019
    /\ \E n \in Names : ssh[n].exists /\ StanzaPort(ssh, n) = {DefaultPort}


(***************************************************************************)
(* The working directory across write_configuration (SpecCM)               *)
(***************************************************************************)
\* C26: write_configuration leaves the working directory of the process as
\* it was before the call, when it returns and when it raises.
C26_CwdRestored ==
    [][\A p \in Procs : CallWriteConfiguration(p) => cwd'[p] = cwd[p]]_vars


(***************************************************************************)
(* delete_configuration of a name that lacks one of its files (SpecCM)     *)
(***************************************************************************)
\* C27: delete_configuration(name) raises FileNotFoundError and removes
\* nothing when the descriptor or the stanza of the name is missing, removes
\* both files when both exist, and leaves the files of every other name as
\* they were.
C27_DeleteAllOrNothing ==
    \A p \in Procs : Ended(p, "delete_configuration") =>
       LET n == op[p].name IN
       /\ IF pre[p].yml[n].exists /\ pre[p].ssh[n].exists
          THEN outcome[p] = "ok" /\ yml[n] = NoFile /\ ssh[n] = NoFile
          ELSE outcome[p] = "FileNotFoundError"
               /\ yml = pre[p].yml /\ ssh = pre[p].ssh
       /\ \A m \in Names \ {n} : yml[m] = pre[p].yml[m] /\ ssh[m] = pre[p].ssh[m]

C27_Witness ==
    /\ Ended(1, "delete_configuration")
    /\ outcome[1] = "FileNotFoundError"
    /\ ssh[op[1].name].exists
    /\ ~yml[op[1].name].exists
    /\ \E m \in Names \ {op[1].name} : yml[m].exists /\ ssh[m].exists


(***************************************************************************)
(* The overwrite prompt of create                                          *)
(***************************************************************************)
\* C28: when the name already has a descriptor and the overwrite prompt is
\* declined, create exits with code 0, has submitted no remote create and
\* has changed no descriptor and no stanza; a remote create for a name that
\* has a descriptor is submitted only after the prompt was confirmed.
C28_OverwritePrompt ==
    \A p \in Procs : op[p].kind = "create" =>
       /\ Has(log[p], "overwrite_declined") =>
            /\ pre[p].yml[op[p].name].exists
            /\ pc[p] = "done" /\ outcome[p] = "exit0"
            /\ ~Has(log[p], "submit_create")
            /\ yml = pre[p].yml /\ ssh = pre[p].ssh /\ remote = pre[p].remote
       /\ (pre[p].yml[op[p].name].exists /\ Has(log[p], "submit_create")) =>
            Before(log[p], "overwrite_confirmed", "submit_create")
       /\ (pre[p].yml[op[p].name].exists /\ pc[p] = "done" /\ outcome[p] = "exit0")
            => Has(log[p], "overwrite_declined")

C28_Witness ==
    /\ Ended(1, "create")
    /\ outcome[1] = "exit0"
    /\ Has(log[1], "overwrite_declined")
    /\ yml[op[1].name].exists /\ ssh[op[1].name].exists
    /\ \E k \in remote : k[2] = op[1].name


(***************************************************************************)
(* get_instance_assignment over bounded logs                               *)
(***************************************************************************)
MaxEntries == 3
InstanceLabels ==
    {{<<"instance_name", "vm-a">>, <<"instance_id", "11">>},
     {<<"instance_name", "vm-b">>, <<"instance_id", "22">>},
     {<<"instance_name", "vm-c">>}}
ResourceLabels == {{<<"workstation_id", n>>} : n \in Names} \cup {{}}
LogEntries ==
    [resource_labels : ResourceLabels, has_labels : {TRUE}, labels : InstanceLabels]
    \cup [resource_labels : ResourceLabels, has_labels : {FALSE}, labels : {{}}]
Logs == UNION {[1..n -> LogEntries] : n \in 0..MaxEntries}

InitAssignment ==
    \E name \in {"ws1"}, project \in {"p1"}, entries \in Logs :
       InitFull(EmptyStore, EmptyStore, {},
                [NoOp EXCEPT !.kind = "get_instance_assignment", !.name = name,
                             !.project = project],
                [NoSub EXCEPT !.entries = entries])

\* utils.py:287-300
CallGetInstanceAssignment(p) ==
    /\ pc[p] = "idle"
    /\ op[p].kind = "get_instance_assignment"
    /\ LET r == get_instance_assignment(sub[p].entries, op[p].project, op[p].name)
       IN  sub' = [sub EXCEPT ![p].instances = r.instances, ![p].seen = r.seen]
    /\ Finish(p, "ok")
    /\ UNCHANGED <<stores, op, cwd, claimed, probes, held, ret, log, pre, ghosts>>

NextAssignment == CallGetInstanceAssignment(1)

SpecAssignment == InitAssignment /\ [][NextAssignment]_vars

\* the entries of p that can be processed and belong to the requested name
Matching(p) ==
    {i \in 1..Len(sub[p].entries) :
        /\ sub[p].entries[i].has_labels
        /\ <<"workstation_id", op[p].name>> \in sub[p].entries[i].resource_labels}

LogsListed(p) ==
    /\ Ended(p, "logs")
    /\ Has(log[p], "list_entries")
    /\ ~Has(log[p], "ProviderError")

\* C30: logs for a name that has no entry in the assignment log returns
\* normally and opens no browser; it opens the logs URL only when the name
\* has an entry.
C30_LogsNotFound ==
    \A p \in Procs : LogsListed(p) =>
       IF op[p].name \in DictKeys(sub[p].instances)
       THEN outcome[p] = "ok" /\ Has(log[p], "open_browser")
       ELSE outcome[p] = "ok" /\ ~Has(log[p], "open_browser")

=============================================================================
